---- MODULE Spec2Model ----
(***************************************************************************)
(* Model of src-tauri/src/cmd.rs: the command layer that resolves a        *)
(* DialectPayload to a backend Connection, invokes one backend operation   *)
(* and wraps the outcome; the OpenedFiles registry; open_path; and the     *)
(* AST dialect selector.                                                   *)
(***************************************************************************)
EXTENDS Naturals, Integers, Sequences, FiniteSets, TLC

VARIABLES
  \* ---- dialect-taking commands (one invocation in flight) ----
  pc,          \* position of the handler: idle, resolve, invoke, await, done
  cmd,         \* name of the command being executed
  payload,     \* its DialectPayload
  args,        \* its other arguments
  conn,        \* Option<Box<dyn Connection>> produced by get_dialect
  constructed, \* number of connection objects constructed by this call
  backendLog,  \* backend operations invoked by this call, in order
  start,       \* Option<Instant>: the handler's `start`
  result,      \* what the command handed back to the caller
  clock,       \* wall clock, in milliseconds
  tResolved,   \* clock when get_dialect returned
  tInvoke,     \* clock when the backend operation was invoked
  tReturn,     \* clock when the backend operation returned
  \* ---- OpenedFiles registry ----
  registry,    \* content of the Mutex: Option<Vec<String>>
  lockHolder,  \* who holds the Mutex
  rpc,         \* position of each opened_files call
  ret,         \* value each opened_files call returned
  snap,        \* registry content when the call took the lock
  populated,   \* whether the registry was ever written
  wpc,         \* position of the external writer
  writes,      \* number of external writes so far
  \* ---- open_path ----
  opc,         \* position of open_path
  opPath,      \* its argument
  fsKind,      \* what the path currently is on disk: missing, file, dir
  targetOs,    \* compilation target
  osActions,   \* OS actions performed by this call, in order
  opResult,    \* what open_path returned
  seenExists,  \* result of the `_path.exists()` guard of this call
  fsChanges,   \* number of external filesystem changes so far
  \* ---- get_ast_dialect ----
  astTag,      \* argument of the last get_ast_dialect call
  astResult,   \* grammar it returned
  astCalls     \* every (tag, grammar) pair returned so far

cmdVars == <<pc, cmd, payload, args, conn, constructed, backendLog, start,
             result, clock, tResolved, tInvoke, tReturn>>
fileVars == <<registry, lockHolder, rpc, ret, snap, populated, wpc, writes>>
openVars == <<opc, opPath, fsKind, targetOs, osActions, opResult, seenExists,
              fsChanges>>
astVars == <<astTag, astResult, astCalls>>
vars == <<cmdVars, fileVars, openVars, astVars>>

\* ---- bounds ----
MaxClock == 2
MaxWrites == 2
MaxFiles == 2
MaxFsChanges == 1

\* ---- Option<T> ----
None == <<>>
Some(v) == <<v>>
IsSome(o) == o # <<>>
unwrap_or_default(o) == IF IsSome(o) THEN o[1] ELSE ""

NoValue == "-"

\* ---- DialectPayload ----
SupportedTags == {"folder", "file", "duckdb", "sqlite", "clickhouse",
                  "clickhouse_tcp", "mysql", "postgres"}
UnknownTags == {"oracle", "DuckDB", ""}
Tags == SupportedTags \cup UnknownTags

OptStr(v) == {None, Some(v)}

DialectPayload ==
  { [dialect |-> t, path |-> p, username |-> o, password |-> o, host |-> h,
     port |-> q, database |-> o, cwd |-> o] :
      t \in Tags, p \in OptStr("/data/db"), h \in OptStr("localhost"),
      q \in OptStr("9000"), o \in OptStr("x") }

\* ---- get_dialect ----
\* The three outcomes of get_dialect: a constructed connection, None, or the
\* panic of Option::unwrap on an absent field.
Resolved(c) == [kind |-> "Some", conn |-> c]
Unsupported == [kind |-> "None"]
UnwrapPanic == [kind |-> "Panic"]

\* Option::unwrap: the value, or a panic.
unwrap(o) == IF IsSome(o) THEN [ok |-> TRUE, v |-> o[1]] ELSE [ok |-> FALSE]
\* Option::unwrap_or_default never panics.
or_default(o) == [ok |-> TRUE, v |-> unwrap_or_default(o)]

\* Folder/File/DuckDb/Sqlite connections: `path: path.unwrap()`.
PathConnection(type, p, withCwd) ==
  LET path == unwrap(p.path) IN
  IF ~path.ok THEN UnwrapPanic
  ELSE Resolved(IF withCwd
                THEN [type |-> type, path |-> path.v, cwd |-> p.cwd]
                ELSE [type |-> type, path |-> path.v])

\* `port: port.unwrap_or_default()` of the two ClickHouse arms.
clickhouse_port(p) == or_default(p.port)

\* Faulty variant: the MySQL/PostgreSQL port defaulted like ClickHouse's.
mysql_port_defaulted(p) == or_default(p.port)

\* `port: port.unwrap()` of the MySQL and PostgreSQL arms.
mysql_port(p) == unwrap(p.port)

\* Networked connections: the fields are evaluated in order, host first.
HostConnection(type, p, port) ==
  LET host == unwrap(p.host) IN
  IF ~host.ok THEN UnwrapPanic
  ELSE IF ~port.ok THEN UnwrapPanic
  ELSE Resolved([type |-> type, host |-> host.v, port |-> port.v,
                 username |-> unwrap_or_default(p.username),
                 password |-> unwrap_or_default(p.password),
                 database |-> p.database])

\* Faulty variant: an unknown tag falls back to a DuckDB connection.
get_dialect_fallback(p) ==
  CASE p.dialect = "folder" -> PathConnection("FolderConnection", p, TRUE)
    [] p.dialect = "file" -> PathConnection("FileConnection", p, FALSE)
    [] p.dialect = "sqlite" -> PathConnection("SqliteConnection", p, FALSE)
    [] p.dialect = "clickhouse" ->
         HostConnection("ClickhouseConnection", p, clickhouse_port(p))
    [] p.dialect = "clickhouse_tcp" ->
         HostConnection("ClickhouseTcpConnection", p, clickhouse_port(p))
    [] p.dialect = "mysql" ->
         HostConnection("MySqlConnection", p, mysql_port(p))
    [] p.dialect = "postgres" ->
         HostConnection("PostgresConnection", p, mysql_port(p))
    [] OTHER -> PathConnection("DuckDbConnection", p, TRUE)

get_dialect(p) ==
  CASE p.dialect = "folder" -> PathConnection("FolderConnection", p, TRUE)
    [] p.dialect = "file" -> PathConnection("FileConnection", p, FALSE)
    [] p.dialect = "duckdb" -> PathConnection("DuckDbConnection", p, TRUE)
    [] p.dialect = "sqlite" -> PathConnection("SqliteConnection", p, FALSE)
    [] p.dialect = "clickhouse" ->
         HostConnection("ClickhouseConnection", p, clickhouse_port(p))
    [] p.dialect = "clickhouse_tcp" ->
         HostConnection("ClickhouseTcpConnection", p, clickhouse_port(p))
    [] p.dialect = "mysql" ->
         HostConnection("MySqlConnection", p, mysql_port(p))
    [] p.dialect = "postgres" ->
         HostConnection("PostgresConnection", p, mysql_port(p))
    [] OTHER -> Unsupported

\* ---- command results ----
Ok(v) == [kind |-> "Ok", val |-> v]
Err(m) == [kind |-> "Err", val |-> m]
Panicked == [kind |-> "Panic", val |-> NoValue]
Pending == [kind |-> "Pending", val |-> NoValue]

\* ---- the backend (Connection trait): any operation succeeds or fails ----
BackendMessages == {"no such table", "connection refused"}
BackendOk == [ok |-> TRUE, val |-> "value"]
BackendErr(m) == [ok |-> FALSE, err |-> [msg |-> m]]
BackendOutcomes == {BackendOk} \cup {BackendErr(m) : m \in BackendMessages}

\* Display of a backend error: its message.
to_string(e) == e.msg

\* ArrowResponse::from_raw_data(res, elapsed): the response envelope.
from_raw_data(res, elapsed) ==
  IF res.ok
  THEN [data |-> res.val, code |-> 0, message |-> "", elapsed |-> elapsed]
  ELSE [data |-> "empty", code |-> 1, message |-> to_string(res.err),
        elapsed |-> elapsed]

\* ---- strings as sequences of characters ----
csv == <<"c", "s", "v">>
json == <<"j", "s", "o", "n">>

\* str::split(sep): the pieces between separators; one piece more than there
\* are separators, so never empty.
RECURSIVE split(_, _)
split(s, sep) ==
  IF \A i \in 1..Len(s) : s[i] # sep THEN <<s>>
  ELSE LET i == CHOOSE k \in 1..Len(s) :
                  s[k] = sep /\ \A j \in 1..(k - 1) : s[j] # sep
       IN <<SubSeq(s, 1, i - 1)>> \o split(SubSeq(s, i + 1, Len(s)), sep)

\* DoubleEndedIterator::next_back on the pieces.
next_back(pieces) == IF pieces = <<>> THEN None ELSE Some(pieces[Len(pieces)])

\* Option::unwrap_or.
unwrap_or(o, d) == IF IsSome(o) THEN o[1] ELSE d

\* The `format` local of export.
export_format(file, format) ==
  IF IsSome(format) THEN format[1]
  ELSE unwrap_or(next_back(split(file, ".")), csv)

\* ---- the dialect-taking commands ----
Commands == {"query", "paging_query", "query_table", "table_row_count",
             "export", "get_db", "show_schema", "show_column", "drop_table",
             "find", "all_columns"}

\* Destination files of export.
Files == { <<"o", "u", "t">>,
           <<"o", "u", "t", ".", "j", "s", "o", "n">>,
           <<"a", ".", "b", ".", "c">>,
           <<"o", "u", "t", ".">>,
           <<".", "c">>,
           <<>> }

\* The arguments of each command besides the DialectPayload.
ArgsOf(c) ==
  CASE c \in {"query", "paging_query"} ->
         {[sql |-> "select 1", limit |-> 10, offset |-> 0]}
    [] c = "query_table" ->
         {[table |-> "t", limit |-> 10, offset |-> 0, orderBy |-> o,
           where |-> w] : o \in OptStr("id"), w \in OptStr("id > 1")}
    [] c = "table_row_count" -> {[table |-> "t", condition |-> ""]}
    [] c = "export" ->
         {[sql |-> "select 1", file |-> f, format |-> fm] :
            f \in Files, fm \in {None, Some(json)}}
    [] c = "show_schema" -> {[schema |-> "main"]}
    [] c \in {"show_column", "drop_table"} ->
         {[schema |-> s, table |-> "t"] : s \in OptStr("main")}
    [] c = "find" -> {[value |-> "v", path |-> "/data"]}
    [] OTHER -> {[none |-> NoValue]}

\* The error each command returns when get_dialect yields None.
unsupported_message(c, tag) ==
  IF c \in {"query", "paging_query", "table_row_count", "export", "get_db"}
  THEN "not support dialect"
  ELSE "not support dialect " \o tag

\* The one backend operation each command invokes, with its arguments.
backend_call(c, a) ==
  CASE c = "query" -> [op |-> "query", args |-> <<a.sql, a.limit, a.offset>>]
    [] c = "paging_query" ->
         [op |-> "paging_query",
          args |-> <<a.sql, Some(a.limit), Some(a.offset)>>]
    [] c = "query_table" ->
         [op |-> "query_table",
          args |-> <<a.table, a.limit, a.offset, unwrap_or_default(a.where),
                     unwrap_or_default(a.orderBy)>>]
    [] c = "table_row_count" ->
         [op |-> "table_row_count", args |-> <<a.table, a.condition>>]
    [] c = "export" ->
         [op |-> "export",
          args |-> <<a.sql, a.file, export_format(a.file, a.format)>>]
    [] c = "get_db" -> [op |-> "get_db", args |-> <<>>]
    [] c = "show_schema" -> [op |-> "show_schema", args |-> <<a.schema>>]
    [] c = "show_column" ->
         [op |-> "show_column", args |-> <<a.schema, a.table>>]
    [] c = "drop_table" ->
         [op |-> "drop_table", args |-> <<a.schema, a.table>>]
    [] c = "find" -> [op |-> "find", args |-> <<a.value, a.path>>]
    [] OTHER -> [op |-> "all_columns", args |-> <<>>]

\* `let start = Instant::now()`: only the three query commands take it.
timer_start(c, now) ==
  IF c \in {"query", "paging_query", "query_table"} THEN Some(now) ELSE None

\* `start.elapsed().as_millis()`.
elapsed(st, now) == IF IsSome(st) THEN now - st[1] ELSE 0

\* What each command returns once the backend operation returned `res`.
query_ret(res, duration) == Ok(from_raw_data(res, Some(duration)))

\* Faulty variant: paging_query drops its timing.
paging_query_ret_untimed(res, duration) == Ok(from_raw_data(res, None))

paging_query_ret(res, duration) == Ok(from_raw_data(res, Some(duration)))

query_table_ret(res, duration) == Ok(from_raw_data(res, Some(duration)))

table_row_count_ret(res) ==
  IF res.ok THEN Ok(res.val) ELSE Err(to_string(res.err))

\* `let _ = d.export(..).await; Ok(())`.
export_ret(res) == Ok("()")

get_db_ret(res) == IF res.ok THEN Ok(res.val) ELSE Err(to_string(res.err))

show_schema_ret(res) == Ok(from_raw_data(res, None))

show_column_ret(res) == Ok(from_raw_data(res, None))

\* `.expect("ERROR")` panics on a failed drop.
drop_table_ret(res) == IF res.ok THEN Ok(res.val) ELSE Panicked

find_ret(res) == Ok(from_raw_data(res, None))

all_columns_ret(res) ==
  IF res.ok THEN Ok(res.val)
  ELSE Err("not support dialect " \o to_string(res.err))

command_ret(c, res, duration) ==
  CASE c = "query" -> query_ret(res, duration)
    [] c = "paging_query" -> paging_query_ret(res, duration)
    [] c = "query_table" -> query_table_ret(res, duration)
    [] c = "table_row_count" -> table_row_count_ret(res)
    [] c = "export" -> export_ret(res)
    [] c = "get_db" -> get_db_ret(res)
    [] c = "show_schema" -> show_schema_ret(res)
    [] c = "show_column" -> show_column_ret(res)
    [] c = "drop_table" -> drop_table_ret(res)
    [] c = "find" -> find_ret(res)
    [] OTHER -> all_columns_ret(res)

\* A command is invoked with its arguments.
Begin ==
  /\ pc = "idle"
  /\ \E c \in Commands : \E p \in DialectPayload : \E a \in ArgsOf(c) :
       /\ cmd' = c
       /\ payload' = p
       /\ args' = a
  /\ pc' = "resolve"
  /\ UNCHANGED <<conn, constructed, backendLog, start, result, clock,
                 tResolved, tInvoke, tReturn>>
  /\ UNCHANGED <<fileVars, openVars, astVars>>

\* `get_dialect(dialect).await` and the branch on its outcome.
Resolve ==
  /\ pc = "resolve"
  /\ LET r == get_dialect(payload) IN
       CASE r.kind = "Some" ->
              /\ conn' = Some(r.conn)
              /\ constructed' = constructed + 1
              /\ result' = result
              /\ pc' = "invoke"
         [] r.kind = "None" ->
              /\ result' = Err(unsupported_message(cmd, payload.dialect))
              /\ pc' = "done"
              /\ UNCHANGED <<conn, constructed>>
         [] OTHER ->
              /\ result' = Panicked
              /\ pc' = "done"
              /\ UNCHANGED <<conn, constructed>>
  /\ tResolved' = clock
  /\ UNCHANGED <<cmd, payload, args, backendLog, start, clock, tInvoke,
                 tReturn>>
  /\ UNCHANGED <<fileVars, openVars, astVars>>

\* The timer is started (query commands) and the backend operation invoked.
Invoke ==
  /\ pc = "invoke"
  /\ start' = timer_start(cmd, clock)
  /\ backendLog' = Append(backendLog, [call |-> backend_call(cmd, args),
                                       res |-> NoValue])
  /\ tInvoke' = clock
  /\ pc' = "await"
  /\ UNCHANGED <<cmd, payload, args, conn, constructed, result, clock,
                 tResolved, tReturn>>
  /\ UNCHANGED <<fileVars, openVars, astVars>>

\* The backend operation returns `res`; the command wraps it and returns.
BackendReturn(res) ==
  /\ pc = "await"
  /\ tReturn' = clock
  /\ result' = command_ret(cmd, res, elapsed(start, clock))
  /\ backendLog' = [backendLog EXCEPT ![Len(backendLog)].res = res]
  /\ pc' = "done"
  /\ UNCHANGED <<cmd, payload, args, conn, constructed, start, clock,
                 tResolved, tInvoke>>
  /\ UNCHANGED <<fileVars, openVars, astVars>>

\* Time passes while a command runs.
Tick ==
  /\ pc \in {"resolve", "invoke", "await"}
  /\ clock < MaxClock
  /\ clock' = clock + 1
  /\ UNCHANGED <<pc, cmd, payload, args, conn, constructed, backendLog, start,
                 result, tResolved, tInvoke, tReturn>>
  /\ UNCHANGED <<fileVars, openVars, astVars>>

CmdIdle ==
  /\ pc = "idle"
  /\ cmd = NoValue
  /\ payload = NoValue
  /\ args = NoValue
  /\ conn = None
  /\ constructed = 0
  /\ backendLog = <<>>
  /\ start = None
  /\ result = Pending
  /\ clock = 0
  /\ tResolved = 0
  /\ tInvoke = 0
  /\ tReturn = 0

\* The caller has the result; the connection is dropped.
Return ==
  /\ pc = "done"
  /\ pc' = "idle"
  /\ cmd' = NoValue
  /\ payload' = NoValue
  /\ args' = NoValue
  /\ conn' = None
  /\ constructed' = 0
  /\ backendLog' = <<>>
  /\ start' = None
  /\ result' = Pending
  /\ clock' = 0
  /\ tResolved' = 0
  /\ tInvoke' = 0
  /\ tReturn' = 0
  /\ UNCHANGED <<fileVars, openVars, astVars>>

\* ---- the OpenedFiles registry ----
Readers == {"r1", "r2"}
Writer == "w"
Free == "free"

FileNames == {"a.csv", "b.csv"}

RECURSIVE SeqsUpTo(_, _)
SeqsUpTo(S, n) ==
  IF n = 0 THEN {<<>>}
  ELSE LET shorter == SeqsUpTo(S, n - 1) IN
       shorter \cup {Append(q, x) : q \in shorter, x \in S}

FileLists == SeqsUpTo(FileNames, MaxFiles)

\* A Vec<String> handed to the caller: an owned copy, or (never in this
\* code) a handle that still reads the registry.
Owned(files) == [kind |-> "owned", val |-> files]
Live == [kind |-> "live", val |-> <<>>]
NotReturned == [kind |-> "none", val |-> <<>>]

\* Faulty variant: the caller is handed the registry's own list.
to_vec_live(files) == Live

\* `files.to_vec()` copies the contents out.
to_vec(files) == Owned(files)

\* `vec![]`.
empty_vec == Owned(<<>>)

\* The sequence the caller sees in what opened_files returned to it.
Returned(r) ==
  IF ret[r].kind = "live"
  THEN (IF IsSome(registry) THEN registry[1] ELSE <<>>)
  ELSE ret[r].val

\* `state.0.lock().unwrap()`: the call blocks until the mutex is free.
ReadLock(r) ==
  /\ rpc[r] \in {"idle", "done"}
  /\ lockHolder = Free
  /\ lockHolder' = r
  /\ rpc' = [rpc EXCEPT ![r] = "locked"]
  /\ ret' = [ret EXCEPT ![r] = NotReturned]
  /\ snap' = [snap EXCEPT ![r] = [reg |-> registry, populated |-> populated]]
  /\ UNCHANGED <<registry, populated, wpc, writes>>
  /\ UNCHANGED <<cmdVars, openVars, astVars>>

\* `if let Some(files) = &*guard { files.to_vec() } else { vec![] }`.
ReadCopy(r) ==
  /\ rpc[r] = "locked"
  /\ ret' = [ret EXCEPT ![r] = IF IsSome(registry) THEN to_vec(registry[1])
                               ELSE empty_vec]
  /\ rpc' = [rpc EXCEPT ![r] = "copied"]
  /\ UNCHANGED <<registry, lockHolder, snap, populated, wpc, writes>>
  /\ UNCHANGED <<cmdVars, openVars, astVars>>

\* The guard is dropped at the end of the statement and Ok(..) returned.
ReadUnlock(r) ==
  /\ rpc[r] = "copied"
  /\ lockHolder' = Free
  /\ rpc' = [rpc EXCEPT ![r] = "done"]
  /\ UNCHANGED <<registry, ret, snap, populated, wpc, writes>>
  /\ UNCHANGED <<cmdVars, openVars, astVars>>

\* An external collaborator takes the lock to replace the list.
WriteLock ==
  /\ wpc = "idle"
  /\ writes < MaxWrites
  /\ lockHolder = Free
  /\ lockHolder' = Writer
  /\ wpc' = "locked"
  /\ UNCHANGED <<registry, rpc, ret, snap, populated, writes>>
  /\ UNCHANGED <<cmdVars, openVars, astVars>>

\* It stores the new list and releases the lock.
WriteStore(files) ==
  /\ wpc = "locked"
  /\ registry' = Some(files)
  /\ populated' = TRUE
  /\ writes' = writes + 1
  /\ lockHolder' = Free
  /\ wpc' = "idle"
  /\ UNCHANGED <<rpc, ret, snap>>
  /\ UNCHANGED <<cmdVars, openVars, astVars>>

\* ---- open_path ----
RootPath == [name |-> "/", abs |-> TRUE, comps |-> <<>>]
EmptyPath == [name |-> "", abs |-> FALSE, comps |-> <<>>]
OpenPaths == { RootPath, EmptyPath,
               [name |-> "/d", abs |-> TRUE, comps |-> <<"d">>],
               [name |-> "/d/f.csv", abs |-> TRUE, comps |-> <<"d", "f.csv">>],
               [name |-> "f.csv", abs |-> FALSE, comps |-> <<"f.csv">>] }

\* What a path can be on disk: the root is a directory, "" names nothing.
KindsOf(p) ==
  IF p = RootPath THEN {"dir"}
  ELSE IF p = EmptyPath THEN {"missing"}
  ELSE {"missing", "file", "dir"}

\* Path::exists, Path::is_file, Path::parent.
exists(kind) == kind # "missing"
is_file(kind) == kind = "file"
parent(p) ==
  IF p.comps = <<>> THEN None
  ELSE Some([abs |-> p.abs, comps |-> SubSeq(p.comps, 1, Len(p.comps) - 1)])

\* Faulty variant: the existence guard never returns early.
not_found_guard_off(kind) == FALSE

\* `if !_path.exists() { return Err(..) }`.
not_found_guard(kind) == ~exists(kind)

\* `format!("/select,{}", path.replace("/", "\\"))`.
explorer_cmd(p) ==
  [prefix |-> "/select,", abs |-> p.abs, comps |-> p.comps, sep |-> "\\"]

OpenBegin(p, k) ==
  /\ opc = "idle"
  /\ k \in KindsOf(p)
  /\ opPath' = p
  /\ fsKind' = k
  /\ opc' = "exists"
  /\ UNCHANGED <<targetOs, osActions, opResult, seenExists, fsChanges>>
  /\ UNCHANGED <<cmdVars, fileVars, astVars>>

\* Something else creates, removes or replaces the path meanwhile.
FsChange(k) ==
  /\ opc \notin {"idle", "done"}
  /\ fsChanges < MaxFsChanges
  /\ k \in KindsOf(opPath) \ {fsKind}
  /\ fsKind' = k
  /\ fsChanges' = fsChanges + 1
  /\ UNCHANGED <<opc, opPath, targetOs, osActions, opResult, seenExists>>
  /\ UNCHANGED <<cmdVars, fileVars, astVars>>

\* The existence guard.
CheckExists ==
  /\ opc = "exists"
  /\ seenExists' = IF exists(fsKind) THEN "yes" ELSE "no"
  /\ IF not_found_guard(fsKind)
     THEN /\ opResult' = Err("the path does not exist: " \o opPath.name)
          /\ opc' = "done"
     ELSE /\ opResult' = opResult
          /\ opc' = "is_file"
  /\ UNCHANGED <<opPath, fsKind, targetOs, osActions, fsChanges>>
  /\ UNCHANGED <<cmdVars, fileVars, astVars>>

\* `_path.is_file() && _path.exists()`, then the windows-only block.
CheckIsFile ==
  /\ opc = "is_file"
  /\ opc' = IF is_file(fsKind) THEN "exists_again" ELSE "to_open"
  /\ UNCHANGED <<opPath, fsKind, targetOs, osActions, opResult, seenExists,
                 fsChanges>>
  /\ UNCHANGED <<cmdVars, fileVars, astVars>>

CheckExistsAgain ==
  /\ opc = "exists_again"
  /\ opc' = IF exists(fsKind) /\ targetOs = "windows" THEN "explorer"
            ELSE "to_open"
  /\ UNCHANGED <<opPath, fsKind, targetOs, osActions, opResult, seenExists,
                 fsChanges>>
  /\ UNCHANGED <<cmdVars, fileVars, astVars>>

\* `Command::new("explorer").arg(cmd).status().expect(..); return Ok(())`.
Explorer(spawned) ==
  /\ opc = "explorer"
  /\ osActions' = Append(osActions,
                         [act |-> "explorer", arg |-> explorer_cmd(opPath)])
  /\ opResult' = IF spawned THEN Ok("()") ELSE Panicked
  /\ opc' = "done"
  /\ UNCHANGED <<opPath, fsKind, targetOs, seenExists, fsChanges>>
  /\ UNCHANGED <<cmdVars, fileVars, astVars>>

\* `to_open` is the parent of a file, else the path; then open::that, whose
\* failure is only logged.
OpenThat(opened) ==
  /\ opc = "to_open"
  /\ LET to_open == IF is_file(fsKind) THEN parent(opPath)
                    ELSE Some([abs |-> opPath.abs, comps |-> opPath.comps])
     IN IF IsSome(to_open)
        THEN /\ osActions' = Append(osActions,
                                    [act |-> "open", arg |-> to_open[1],
                                     ok |-> opened])
             /\ opResult' = Ok("()")
        ELSE /\ osActions' = osActions
             /\ opResult' = Panicked
  /\ opc' = "done"
  /\ UNCHANGED <<opPath, fsKind, targetOs, seenExists, fsChanges>>
  /\ UNCHANGED <<cmdVars, fileVars, astVars>>

OpenIdle ==
  /\ opc = "idle"
  /\ opPath = EmptyPath
  /\ fsKind = "missing"
  /\ osActions = <<>>
  /\ opResult = Pending
  /\ seenExists = "unchecked"
  /\ fsChanges = 0

OpenReturn ==
  /\ opc = "done"
  /\ opc' = "idle"
  /\ opPath' = EmptyPath
  /\ fsKind' = "missing"
  /\ osActions' = <<>>
  /\ opResult' = Pending
  /\ seenExists' = "unchecked"
  /\ fsChanges' = 0
  /\ UNCHANGED targetOs
  /\ UNCHANGED <<cmdVars, fileVars, astVars>>

\* ---- get_ast_dialect ----
Grammars == {"DuckDbDialect", "ClickHouseDialect", "MySqlDialect",
             "PostgreSqlDialect", "GenericDialect"}

\* Faulty variant: the HTTP clickhouse tag also selects the ClickHouse grammar.
get_ast_dialect_clickhouse(dialect) ==
  CASE dialect \in {"folder", "file", "duckdb"} -> "DuckDbDialect"
    [] dialect \in {"clickhouse", "clickhouse_tcp"} -> "ClickHouseDialect"
    [] dialect = "mysql" -> "MySqlDialect"
    [] dialect = "postgres" -> "PostgreSqlDialect"
    [] OTHER -> "GenericDialect"

get_ast_dialect(dialect) ==
  CASE dialect \in {"folder", "file", "duckdb"} -> "DuckDbDialect"
    [] dialect = "clickhouse_tcp" -> "ClickHouseDialect"
    [] dialect = "mysql" -> "MySqlDialect"
    [] dialect = "postgres" -> "PostgreSqlDialect"
    [] OTHER -> "GenericDialect"

AstCall(tag) ==
  /\ astTag' = tag
  /\ astResult' = get_ast_dialect(tag)
  /\ astCalls' = astCalls \cup {<<tag, get_ast_dialect(tag)>>}
  /\ UNCHANGED <<cmdVars, fileVars, openVars>>

\* ---- specifications ----
\* One specification per independent part of the file: the dialect-taking
\* commands (Spec), the registry (SpecFiles), open_path (SpecOpen) and the
\* AST dialect selector (SpecAst).
Init ==
  /\ CmdIdle
  /\ registry = None
  /\ lockHolder = Free
  /\ rpc = [r \in Readers |-> "idle"]
  /\ ret = [r \in Readers |-> NotReturned]
  /\ snap = [r \in Readers |-> [reg |-> None, populated |-> FALSE]]
  /\ populated = FALSE
  /\ wpc = "idle"
  /\ writes = 0
  /\ OpenIdle
  /\ targetOs \in {"windows", "other"}
  /\ astTag = NoValue
  /\ astResult = NoValue
  /\ astCalls = {}

NextCmd ==
  \/ Begin
  \/ Resolve
  \/ Invoke
  \/ \E res \in BackendOutcomes : BackendReturn(res)
  \/ Tick
  \/ Return

NextFiles ==
  \/ \E r \in Readers : ReadLock(r)
  \/ \E r \in Readers : ReadCopy(r)
  \/ \E r \in Readers : ReadUnlock(r)
  \/ WriteLock
  \/ \E files \in FileLists : WriteStore(files)

NextOpen ==
  \/ \E p \in OpenPaths : \E k \in {"missing", "file", "dir"} : OpenBegin(p, k)
  \/ \E k \in {"missing", "file", "dir"} : FsChange(k)
  \/ CheckExists
  \/ CheckIsFile
  \/ CheckExistsAgain
  \/ \E spawned \in BOOLEAN : Explorer(spawned)
  \/ \E opened \in BOOLEAN : OpenThat(opened)
  \/ OpenReturn

NextAst == \E tag \in Tags : AstCall(tag)

Spec == Init /\ [][NextCmd]_vars
SpecFiles == Init /\ [][NextFiles]_vars
SpecOpen == Init /\ [][NextOpen]_vars
SpecAst == Init /\ [][NextAst]_vars

\* ---- properties of the dialect-taking commands ----
BackendFailed == backendLog # <<>> /\ pc = "done" /\ ~backendLog[1].res.ok
BackendMessage == backendLog[1].res.err.msg

\* C1: for a dialect tag outside the eight supported ones, every
\* dialect-taking command returns "not support dialect" or
\* "not support dialect {tag}", constructs no connection and invokes no
\* backend operation, whatever the other descriptor fields are.
C1_UnsupportedDialectReported ==
  (pc # "idle" /\ payload.dialect \notin
     {"folder", "file", "duckdb", "sqlite", "clickhouse", "clickhouse_tcp",
      "mysql", "postgres"}) =>
    /\ pc \in {"resolve", "done"}
    /\ conn = None
    /\ constructed = 0
    /\ backendLog = <<>>
    /\ pc = "done" =>
         /\ result.kind = "Err"
         /\ result.val \in {"not support dialect",
                            "not support dialect " \o payload.dialect}

C1_Witness ==
  /\ pc = "done"
  /\ cmd = "query_table"
  /\ payload.dialect = "oracle"
  /\ IsSome(payload.path)
  /\ IsSome(payload.host)
  /\ result = Err("not support dialect oracle")

PathTags == {"folder", "file", "duckdb", "sqlite"}
HostTags == {"clickhouse", "clickhouse_tcp", "mysql", "postgres"}

\* C2 as stated: for a supported dialect with path absent (folder, file,
\* duckdb, sqlite) or host or port absent (clickhouse, clickhouse_tcp, mysql,
\* postgres), resolution ends in a panic: no connection, not None, and no
\* backend operation is invoked.
C2_RequiredFieldAbsentIsFatal ==
  (pc \notin {"idle", "resolve"} /\
   \/ payload.dialect \in PathTags /\ ~IsSome(payload.path)
   \/ payload.dialect \in HostTags /\
        (~IsSome(payload.host) \/ ~IsSome(payload.port))) =>
    /\ pc = "done"
    /\ result = Panicked
    /\ conn = None
    /\ constructed = 0
    /\ backendLog = <<>>

\* C2 amended: the fatal fields are path (folder, file, duckdb, sqlite), host
\* (clickhouse, clickhouse_tcp) and host or port (mysql, postgres); their
\* absence ends resolution in a panic before any connection or backend
\* operation. An absent port of clickhouse or clickhouse_tcp is not fatal:
\* with the host present the connection is built with the empty port.
C2_RequiredFieldAbsentIsFatalAmended ==
  /\ (pc \notin {"idle", "resolve"} /\
      \/ payload.dialect \in PathTags /\ ~IsSome(payload.path)
      \/ payload.dialect \in HostTags /\ ~IsSome(payload.host)
      \/ payload.dialect \in {"mysql", "postgres"} /\ ~IsSome(payload.port)) =>
       /\ pc = "done"
       /\ result = Panicked
       /\ conn = None
       /\ constructed = 0
       /\ backendLog = <<>>
  /\ (pc \notin {"idle", "resolve"} /\
      payload.dialect \in {"clickhouse", "clickhouse_tcp"} /\
      IsSome(payload.host) /\ ~IsSome(payload.port)) =>
       /\ IsSome(conn)
       /\ conn[1].port = ""
       /\ constructed = 1

C2_Witness ==
  /\ pc = "done"
  /\ payload.dialect = "mysql"
  /\ IsSome(payload.host)
  /\ ~IsSome(payload.port)
  /\ result = Panicked
  /\ backendLog = <<>>

\* C3: for a supported dialect, when the backend's export fails, the export
\* command returns an error, never Ok.
C3_ExportFailureReported ==
  (cmd = "export" /\ BackendFailed) => result.kind = "Err"

\* C4: for a supported dialect, when the backend's drop_table fails, the
\* drop_table command returns an error result, never a confirmation.
C4_DropFailureReturnsError ==
  (cmd = "drop_table" /\ BackendFailed) => result.kind = "Err"

HasDot(s) == \E i \in 1..Len(s) : s[i] = "."
AfterLastDot(s) ==
  LET i == CHOOSE k \in 1..Len(s) :
             s[k] = "." /\ \A j \in (k + 1)..Len(s) : s[j] # "."
  IN SubSeq(s, i + 1, Len(s))

\* C5: without an explicit format, export passes the backend the text after
\* the last '.' of the destination, and "csv" when the destination has no
\* '.'; an explicit format is passed unchanged.
C5_ExportFormatInference ==
  (cmd = "export" /\ backendLog # <<>>) =>
    backendLog[1].call.args[3] =
      (IF IsSome(args.format) THEN args.format[1]
       ELSE IF HasDot(args.file) THEN AfterLastDot(args.file)
       ELSE csv)

\* C6: when the backend operation behind table_row_count, get_db or
\* all_columns fails with message m, the command returns an error whose text
\* is exactly m.
C6_BackendMessageVerbatim ==
  (cmd \in {"table_row_count", "get_db", "all_columns"} /\ BackendFailed) =>
    result = Err(BackendMessage)

\* C7: every envelope returned by query, paging_query or query_table carries
\* an elapsed time, the time between invoking the single backend operation
\* (after the connection was resolved) and its return; every envelope
\* returned by show_schema, show_column or find carries none; whether the
\* backend operation succeeded or failed.
C7_ElapsedOnlyForQueries ==
  (pc = "done" /\ result.kind = "Ok") =>
    /\ cmd \in {"query", "paging_query", "query_table"} =>
         /\ result.val.elapsed = Some(tReturn - tInvoke)
         /\ tResolved <= tInvoke
         /\ Len(backendLog) = 1
    /\ cmd \in {"show_schema", "show_column", "find"} =>
         result.val.elapsed = None

C7_Witness ==
  /\ pc = "done"
  /\ cmd = "paging_query"
  /\ BackendFailed
  /\ tResolved = 1
  /\ result.kind = "Ok"
  /\ result.val.elapsed = Some(1)

\* ---- properties of the OpenedFiles registry ----
\* C8: an opened_files call returns the empty sequence if the registry was
\* never populated when it took the lock, and otherwise the sequence the
\* registry held at that moment, in order; a read step never changes the
\* registry; a later write never changes a sequence already returned.
C8_OpenedFilesSnapshot ==
  /\ [](\A r \in Readers : rpc[r] = "done" =>
          /\ ~snap[r].populated => Returned(r) = <<>>
          /\ snap[r].populated =>
               IsSome(snap[r].reg) /\ Returned(r) = snap[r].reg[1])
  /\ [][(\E r \in Readers : rpc'[r] # rpc[r]) => registry' = registry]_vars
  /\ [][\A r \in Readers : (rpc[r] = "done" /\ rpc'[r] = "done") =>
          Returned(r)' = Returned(r)]_vars

C8_Witness ==
  /\ rpc["r1"] = "done"
  /\ Returned("r1") = <<"a.csv", "b.csv">>
  /\ registry = Some(<<"b.csv">>)
  /\ rpc["r2"] = "done"
  /\ Returned("r2") = <<>>
  /\ ~snap["r2"].populated

\* ---- properties of open_path ----
\* C9: when the path does not exist at the existence check, open_path
\* returns the path-not-found error and performs no OS action; no OS action
\* is performed on any path through open_path before the existence check
\* has passed.
C9_NotFoundBeforeOsAction ==
  /\ seenExists = "no" =>
       /\ osActions = <<>>
       /\ opc = "done"
       /\ opResult = Err("the path does not exist: " \o opPath.name)
  /\ osActions # <<>> => seenExists = "yes"
  /\ opc \notin {"idle", "exists"} => seenExists # "unchecked"

C9_Witness ==
  /\ opc = "done"
  /\ opPath.name = "/d/f.csv"
  /\ fsKind = "missing"
  /\ seenExists = "no"
  /\ opResult = Err("the path does not exist: /d/f.csv")
  /\ osActions = <<>>

\* ---- properties of get_ast_dialect ----
\* C10: get_ast_dialect returns a grammar for every tag: DuckDB for folder,
\* file and duckdb, ClickHouse for clickhouse_tcp, MySQL for mysql,
\* PostgreSQL for postgres, and the generic grammar for every other tag,
\* sqlite, clickhouse and unrecognized tags included.
C10_AstDialectMapping ==
  /\ astTag # NoValue => astResult \in Grammars
  /\ \A call \in astCalls :
       LET tag == call[1]
           grammar == call[2]
       IN /\ tag \in {"folder", "file", "duckdb"} => grammar = "DuckDbDialect"
          /\ tag = "clickhouse_tcp" => grammar = "ClickHouseDialect"
          /\ tag = "mysql" => grammar = "MySqlDialect"
          /\ tag = "postgres" => grammar = "PostgreSqlDialect"
          /\ tag \notin {"folder", "file", "duckdb", "clickhouse_tcp",
                         "mysql", "postgres"} => grammar = "GenericDialect"

C10_Witness ==
  /\ <<"sqlite", "GenericDialect">> \in astCalls
  /\ <<"clickhouse", "GenericDialect">> \in astCalls
  /\ <<"oracle", "GenericDialect">> \in astCalls
  /\ <<"clickhouse_tcp", "ClickHouseDialect">> \in astCalls
  /\ <<"duckdb", "DuckDbDialect">> \in astCalls

====
